---- MODULE Spec2Model ----
(***************************************************************************)
(* The five example components of "State Management Patterns Beyond       *)
(* Redux": a Context API theme toggle and four counters (Zustand, Recoil, *)
(* Jotai, MobX).  Each example owns one piece of state and one component  *)
(* that renders it and handles clicks on one button.  A click handler     *)
(* runs to completion; the re-render that the state change schedules is a *)
(* later step, so a handler reads whatever its component bound at the     *)
(* last render.                                                           *)
(***************************************************************************)
EXTENDS Integers, Sequences, FiniteSets, TLC

VARIABLES
    count,    \* [Counters -> Nat]: useStore's state.count, the countState atom,
              \* countAtom, counterStore.count
    theme,    \* ThemeProvider's useState value
    view,     \* [Examples -> Seq(record)]: <<>> before the first render, else
              \* <<what the component's last render bound and displayed>>
    clicks,   \* [Examples -> Nat]: click events handled so far (history)
    held      \* [Counters -> SUBSET Nat]: values each store has held (history)

vars == <<count, theme, view, clicks, held>>

\* Total number of click events fed to the page.
MaxClicks == 4

Counters == {"Zustand", "Recoil", "Jotai", "MobX"}
Examples == Counters \cup {"Context"}

-----------------------------------------------------------------------------
(* Construction: what each example creates at module/component start.      *)

\* Mutant of useStore: the store is created with count 1.
useStoreStartsAtOne == [count |-> 1]

\* create((set) => ({ count: 0, increment })): the store's initial state
useStore == [count |-> 0]

\* atom({ key: 'countState', default: 0 })
countState == [key |-> "countState", default |-> 0]

\* Mutant of countAtom: atom(1).
countAtomStartsAtOne == [init |-> 1]

\* atom(0)
countAtom == [init |-> 0]

\* class CounterStore { count = 0 }; counterStore = new CounterStore()
CounterStore == [count |-> 0]

\* useState('light') in ThemeProvider
ThemeProvider == [theme |-> "light"]

-----------------------------------------------------------------------------
(* Pure functions of the examples.                                         *)

\* set((state) => ({ count: state.count + 1 }))
increment(state) == [state EXCEPT !.count = state.count + 1]

\* Mutant of doubleCountState: get(countState) + 2.
doubleCountStatePlus(c) == c + 2

\* selector get: ({ get }) => get(countState) * 2
doubleCountState(c) == c * 2

\* Recoil's onClick: () => setCount(count + 1), count bound at the last render
setCountArg(boundCount) == boundCount + 1

\* Jotai's updater: (c) => c + 1
countUpdater(c) == c + 1

\* CounterStore.increment(): this.count++
CounterStoreIncrement(store) == [store EXCEPT !.count = store.count + 1]

\* App's onClick argument: theme === 'dark' ? 'light' : 'dark', theme bound at
\* the last render
setThemeArg(boundTheme) == IF boundTheme = "dark" THEN "light" ELSE "dark"

\* App's style: theme === 'dark' ? '#333' : '#fff'
background(t) == IF t = "dark" THEN "#333" ELSE "#fff"

-----------------------------------------------------------------------------
(* Render results: what each component binds and displays when it renders  *)
(* against the current state.                                              *)

\* const { count, increment } = useStore(); <p>Count: {count}</p>
CounterZustand == [count |-> count["Zustand"]]

\* useRecoilState(countState), useRecoilValue(doubleCountState)
CounterRecoil ==
    [count |-> count["Recoil"], doubleCount |-> doubleCountState(count["Recoil"])]

\* const [count, setCount] = useAtom(countAtom)
CounterJotai == [count |-> count["Jotai"]]

\* Mutant of CounterMobX: without observer the component keeps the value it
\* read when it was created and is never re-rendered.
CounterMobXNoObserver == [count |-> CounterStore.count]

\* observer(() => <p>Count: {counterStore.count}</p>)
CounterMobX == [count |-> count["MobX"]]

\* const { theme, setTheme } = useTheme(); background from theme
App == [theme |-> theme, background |-> background(theme)]

Component(e) ==
    CASE e = "Zustand" -> CounterZustand
      [] e = "Recoil"  -> CounterRecoil
      [] e = "Jotai"   -> CounterJotai
      [] e = "MobX"    -> CounterMobX
      [] e = "Context" -> App

Mounted(e) == view[e] # <<>>
Shown(e) == view[e][1]

RECURSIVE Sum(_, _)
Sum(f, S) == IF S = {} THEN 0
             ELSE LET x == CHOOSE y \in S : TRUE IN f[x] + Sum(f, S \ {x})

TotalClicks == Sum(clicks, Examples)

-----------------------------------------------------------------------------
Init ==
    /\ count = [e \in Counters |->
                  CASE e = "Zustand" -> useStore.count
                    [] e = "Recoil"  -> countState.default
                    [] e = "Jotai"   -> countAtom.init
                    [] e = "MobX"    -> CounterStore.count]
    /\ theme = ThemeProvider.theme
    /\ view = [e \in Examples |-> <<>>]
    /\ clicks = [e \in Examples |-> 0]
    /\ held = [e \in Counters |-> {count[e]}]

\* The first render of a component, or the re-render that a state change
\* has scheduled: the component binds and displays the current state.
Render(e) ==
    /\ view[e] # <<Component(e)>>
    /\ view' = [view EXCEPT ![e] = <<Component(e)>>]
    /\ UNCHANGED <<count, theme, clicks, held>>

Clickable(e) == Mounted(e) /\ TotalClicks < MaxClicks

\* <button onClick={increment}>: the updater runs against the store's state
ClickZustand ==
    /\ Clickable("Zustand")
    /\ count' = [count EXCEPT !["Zustand"] = increment([count |-> count["Zustand"]]).count]
    /\ held' = [held EXCEPT !["Zustand"] = @ \cup {count'["Zustand"]}]
    /\ clicks' = [clicks EXCEPT !["Zustand"] = @ + 1]
    /\ UNCHANGED <<theme, view>>

\* <button onClick={() => setCount(count + 1)}>: count is the render's binding
ClickRecoil ==
    /\ Clickable("Recoil")
    /\ count' = [count EXCEPT !["Recoil"] = setCountArg(Shown("Recoil").count)]
    /\ held' = [held EXCEPT !["Recoil"] = @ \cup {count'["Recoil"]}]
    /\ clicks' = [clicks EXCEPT !["Recoil"] = @ + 1]
    /\ UNCHANGED <<theme, view>>

\* Mutant of ClickJotai: the Jotai Counter is bound to the Recoil example's
\* atom as well, so its click also writes countState.
ClickJotaiSharedAtom ==
    /\ Clickable("Jotai")
    /\ count' = [count EXCEPT !["Jotai"] = countUpdater(count["Jotai"]),
                              !["Recoil"] = countUpdater(count["Recoil"])]
    /\ held' = [held EXCEPT !["Jotai"] = @ \cup {count'["Jotai"]},
                            !["Recoil"] = @ \cup {count'["Recoil"]}]
    /\ clicks' = [clicks EXCEPT !["Jotai"] = @ + 1]
    /\ UNCHANGED <<theme, view>>

\* <button onClick={() => setCount((c) => c + 1)}>
ClickJotai ==
    /\ Clickable("Jotai")
    /\ count' = [count EXCEPT !["Jotai"] = countUpdater(count["Jotai"])]
    /\ held' = [held EXCEPT !["Jotai"] = @ \cup {count'["Jotai"]}]
    /\ clicks' = [clicks EXCEPT !["Jotai"] = @ + 1]
    /\ UNCHANGED <<theme, view>>

\* <button onClick={() => counterStore.increment()}>
ClickMobX ==
    /\ Clickable("MobX")
    /\ count' = [count EXCEPT !["MobX"] = CounterStoreIncrement([count |-> count["MobX"]]).count]
    /\ held' = [held EXCEPT !["MobX"] = @ \cup {count'["MobX"]}]
    /\ clicks' = [clicks EXCEPT !["MobX"] = @ + 1]
    /\ UNCHANGED <<theme, view>>

\* <button onClick={() => setTheme(theme === 'dark' ? 'light' : 'dark')}>
ClickToggleTheme ==
    /\ Clickable("Context")
    /\ theme' = setThemeArg(Shown("Context").theme)
    /\ clicks' = [clicks EXCEPT !["Context"] = @ + 1]
    /\ UNCHANGED <<count, view, held>>

Click(e) ==
    CASE e = "Zustand" -> ClickZustand
      [] e = "Recoil"  -> ClickRecoil
      [] e = "Jotai"   -> ClickJotai
      [] e = "MobX"    -> ClickMobX
      [] e = "Context" -> ClickToggleTheme

Next ==
    \/ \E e \in Examples : Render(e)
    \/ ClickZustand
    \/ ClickRecoil
    \/ ClickJotai
    \/ ClickMobX
    \/ ClickToggleTheme

Spec == Init /\ [][Next]_vars

\* A scheduled render is eventually performed.
FairSpec == Spec /\ \A e \in Examples : WF_vars(Render(e))

-----------------------------------------------------------------------------
(* Properties.                                                             *)

\* The view of counter e is current: no re-render of it is pending.
Current(e) == Mounted(e) /\ Shown(e).count = count[e]

\* What one example owns: its state, its view and its click history.
ExampleState(e) ==
    <<IF e \in Counters THEN count[e] ELSE theme, view[e], clicks[e]>>

\* C1: in every counter example, starting from count = 0, once the n clicks
\* handled so far have been rendered the displayed count equals n.
DisplayedCountEqualsClicks ==
    \A e \in Counters : Current(e) => Shown(e).count = clicks[e]

\* C2: in the Recoil example the doubleCount shown by Counter is twice the
\* count shown by the same render, in every reachable state.
DoubleCountIsTwiceCount ==
    Mounted("Recoil") => Shown("Recoil").doubleCount = 2 * Shown("Recoil").count

\* C2 witness: after two rendered increments Counter shows 2 and 4.
DoubleCountWitness ==
    /\ Mounted("Recoil")
    /\ clicks["Recoil"] = 2
    /\ Shown("Recoil").count = 2
    /\ Shown("Recoil").doubleCount = 4

\* C3: in every counter example, before any click of it has been handled, the
\* count displayed by the first render is 0.
InitialDisplayIsZero ==
    \A e \in Counters : (Mounted(e) /\ clicks[e] = 0) => Shown(e).count = 0

\* C3 witness: all four counters have rendered, none has been clicked, and
\* each shows 0.
InitialDisplayWitness ==
    \A e \in Counters : Mounted(e) /\ clicks[e] = 0 /\ Shown(e).count = 0

\* C4 as stated: each of the five examples, Context API included, holds an
\* integer counter count whose initial value is 0.
AllFiveHoldCount ==
    \A e \in Examples :
        /\ e \in DOMAIN count
        /\ count[e] \in Nat
        /\ clicks[e] = 0 => count[e] = 0

\* C4 as amended: the four counter examples, and only they, hold an integer
\* count whose initial value is 0; the Context API example holds a theme that
\* is 'light' or 'dark' and initially 'light'.
FourHoldCountContextHoldsTheme ==
    /\ DOMAIN count = Counters
    /\ \A e \in Counters : count[e] \in Nat /\ (clicks[e] = 0 => count[e] = 0)
    /\ theme \in {"light", "dark"}
    /\ clicks["Context"] = 0 => theme = "light"

\* C4 witness: a counter has moved off its initial value and the theme has
\* been toggled, while an unclicked counter still holds 0.
StateShapeWitness ==
    /\ count["Jotai"] = 2
    /\ theme = "dark"
    /\ clicks["Context"] = 1
    /\ clicks["Zustand"] = 0 /\ count["Zustand"] = 0

\* C5: every handled Increment click replaces the value with value + 1; no
\* click leaves the value unchanged.
ClickAlwaysIncrements ==
    [][\A e \in Counters : Click(e) => count'[e] = count[e] + 1]_vars

\* C6: theme is 'light' or 'dark', starts 'light', and after n Toggle Theme
\* clicks it is 'dark' exactly when n is odd.
ThemeFollowsClickParity ==
    /\ theme \in {"light", "dark"}
    /\ theme = "dark" <=> clicks["Context"] % 2 = 1

\* C7: a click handled in one example leaves the state, the view and the
\* click history of every other example unchanged.
ExamplesAreIndependent ==
    [][\A e \in Examples : Click(e) =>
          \A f \in Examples \ {e} : ExampleState(f)' = ExampleState(f)]_vars

\* C7 witness: one example has handled and rendered two clicks while every
\* other example is mounted and still in its initial state.
IndependenceWitness ==
    /\ \A e \in Examples : Mounted(e)
    /\ count["Zustand"] = 2 /\ Shown("Zustand").count = 2
    /\ \A e \in Counters \ {"Zustand"} : count[e] = 0 /\ clicks[e] = 0
    /\ theme = "light" /\ clicks["Context"] = 0

\* C8: no increment is lost: in the Recoil example, as in the Zustand and
\* Jotai examples, the stored count after n clicks is n in every interleaving
\* of clicks and re-renders.
NoIncrementLost ==
    \A e \in {"Recoil", "Zustand", "Jotai"} : count[e] = clicks[e]

\* C9: the stored count of every counter example is a non-negative integer,
\* and every transition either is a render and leaves it unchanged or is a
\* click of that example and raises it by exactly 1.
CountStepsByOnePerClick ==
    /\ [](\A e \in Counters : count[e] \in Nat)
    /\ [][\A e \in Counters :
            \/ ~Click(e) /\ count'[e] = count[e]
            \/ Click(e) /\ count'[e] = count[e] + 1]_vars

\* C10: a counter's view never displays a value its store has not held, and
\* whenever the displayed count differs from the stored count the view
\* eventually displays the stored count.
ViewReactsToStore ==
    /\ [](\A e \in Counters : Mounted(e) => Shown(e).count \in held[e])
    /\ \A e \in Counters : (~Current(e)) ~> Current(e)

\* C10 witness: after a click the MobX view has caught up with the store.
ViewCaughtUpWitness ==
    /\ clicks["MobX"] = 2
    /\ Current("MobX")
    /\ Shown("MobX").count = 2

====
